---- MODULE Spec2Model ----
(***************************************************************************)
(* Model of lib/utils/appsync.ts: the Relay-style Edge/Connection          *)
(* generator over AppSync ObjectType descriptors.                          *)
(*                                                                         *)
(* Strings are sequences of one-character strings, so that pluralize,      *)
(* toLowerCase and the template literal of obtainName are computed.        *)
(* Objects live in `heap`: a descriptor's identity is its index, which is  *)
(* what the `==` of obtainName compares.                                   *)
(***************************************************************************)
EXTENDS Integers, Sequences, FiniteSets, TLC

VARIABLES heap, log

\* lib/constructs/business/rest-api-service.ts: the service whose constructor
\* is running and the statement it is at, the constructor's local constants,
\* the services constructed, the methods registered on the API, the CORS
\* preflight of each path, and each service's resourceMapping
VARIABLES constructing, pc, locals, constructed, registered, preflights,
          resourceMapping

restVars == <<constructing, pc, locals, constructed, registered, preflights,
              resourceMapping>>

\* .github/workflows/node.yml, workflow "AWS CDK CI": the pull request that
\* was opened, the status of each job and the step it is at, the outputs the
\* steps have set, and the comments posted on the pull request
VARIABLES event, jobs, step, outputs, comments

ciVars == <<event, jobs, step, outputs, comments>>

vars == <<heap, log, restVars, ciVars>>

(***************************************************************************)
(* Bounds                                                                  *)
(***************************************************************************)
\* number of ObjectTypes the caller has constructed before the generator runs
NumInputs == 2
\* capacity of the heap: PageInfo, the caller's ObjectTypes, generated ones
MaxHeap == 6
\* number of consecutive calls of the combined generator in SpecCombined
MaxRepeat == 2

(***************************************************************************)
(* Characters and String.prototype.toLowerCase / toUpperCase               *)
(***************************************************************************)
Lowers == <<"a","b","c","d","e","f","g","h","i","j","k","l","m",
            "n","o","p","q","r","s","t","u","v","w","x","y","z">>

Uppers == <<"A","B","C","D","E","F","G","H","I","J","K","L","M",
            "N","O","P","Q","R","S","T","U","V","W","X","Y","Z">>

\* the lower-case letter of each upper-case letter, and the converse
LowerOf ==
    [c \in {Uppers[i] : i \in DOMAIN Uppers} |->
        Lowers[CHOOSE i \in DOMAIN Uppers : Uppers[i] = c]]

UpperOf ==
    [c \in {Lowers[i] : i \in DOMAIN Lowers} |->
        Uppers[CHOOSE i \in DOMAIN Lowers : Lowers[i] = c]]

toLowerCaseChar(c) == IF c \in DOMAIN LowerOf THEN LowerOf[c] ELSE c

toUpperCaseChar(c) == IF c \in DOMAIN UpperOf THEN UpperOf[c] ELSE c

toLowerCase(w) == [i \in 1..Len(w) |-> toLowerCaseChar(w[i])]

toUpperCase(w) == [i \in 1..Len(w) |-> toUpperCaseChar(w[i])]

\* w ends with the characters of s, compared case-insensitively (the /i flag)
EndsWithI(w, s) ==
    /\ Len(w) >= Len(s)
    /\ toLowerCase(SubSeq(w, Len(w) - Len(s) + 1, Len(w))) = s

DropLast(w, n) == SubSeq(w, 1, Len(w) - n)

TakeLast(w, n) == SubSeq(w, Len(w) - n + 1, Len(w))

(***************************************************************************)
(* pluralize (npm), as called with one argument: pluralize.plural.         *)
(* restoreCase and the rules that decide the words of Names are modelled:  *)
(*   /(pe)(?:rson|ople)$/i -> $1ople     /(x|ch|ss|sh|zz)$/i -> $1es       *)
(*   /([^aeiouy]|qu)y$/i  -> $1ies       /s?$/i -> s                       *)
(* in the library's order of precedence; the empty word is returned as is. *)
(***************************************************************************)
restoreCase(word, token) ==
    IF word = token THEN token
    ELSE IF word = toLowerCase(word) THEN toLowerCase(token)
    ELSE IF word = toUpperCase(word) THEN toUpperCase(token)
    ELSE IF word[1] = toUpperCaseChar(word[1])
         THEN <<toUpperCaseChar(token[1])>> \o toLowerCase(Tail(token))
    ELSE toLowerCase(token)

Vowels == {"a", "e", "i", "o", "u"}

\* replace(word, rule): the matched end of the word is replaced by the
\* interpolated result, whose case is restored from the match
ReplaceEnd(word, n, result) ==
    IF n = 0
    THEN word \o restoreCase(<<word[Len(word)]>>, result)
    ELSE DropLast(word, n) \o restoreCase(TakeLast(word, n), result)

sanitizeWord(token, word) ==
    IF Len(token) = 0 THEN word
    ELSE IF EndsWithI(word, <<"p","e","r","s","o","n">>)
            \/ EndsWithI(word, <<"p","e","o","p","l","e">>)
         THEN ReplaceEnd(word, 6,
                  SubSeq(word, Len(word) - 5, Len(word) - 4) \o <<"o","p","l","e">>)
    ELSE IF \E s \in {<<"x">>, <<"c","h">>, <<"s","s">>, <<"s","h">>, <<"z","z">>} :
                EndsWithI(word, s)
         THEN LET n == IF EndsWithI(word, <<"x">>) THEN 1 ELSE 2
              IN  ReplaceEnd(word, n, TakeLast(word, n) \o <<"e","s">>)
    ELSE IF /\ Len(word) >= 2
            /\ EndsWithI(word, <<"y">>)
            /\ token[Len(token) - 1] \notin (Vowels \cup {"y"})
         THEN ReplaceEnd(word, 2, <<word[Len(word) - 1]>> \o <<"i","e","s">>)
    ELSE IF EndsWithI(word, <<"s">>)
         THEN ReplaceEnd(word, 1, <<"s">>)
    ELSE ReplaceEnd(word, 0, <<"s">>)

pluralize(word) == sanitizeWord(toLowerCase(word), word)

(***************************************************************************)
(* GraphqlType values                                                      *)
(***************************************************************************)
\* GraphqlType of a scalar kind; ref is the intermediate type, 0 for scalars
Scalar(kind, isList, isRequired) ==
    [kind |-> kind, ref |-> 0, isList |-> isList, isRequired |-> isRequired]

int == Scalar("Int", FALSE, FALSE)

string == Scalar("String", FALSE, FALSE)

required_string == Scalar("String", FALSE, TRUE)

required_id == Scalar("ID", FALSE, TRUE)

required_boolean == Scalar("Boolean", FALSE, TRUE)

\* ObjectType.attribute(options) of the descriptor with identity d
attribute(d, isList, isRequired) ==
    [kind |-> "INTERMEDIATE", ref |-> d, isList |-> isList, isRequired |-> isRequired]

list_of(d) == attribute(d, TRUE, FALSE)

required(d) == attribute(d, FALSE, TRUE)

(***************************************************************************)
(* Object literals: a later property with the same key overwrites the      *)
(* earlier one (a computed key may repeat a literal one).                  *)
(***************************************************************************)
ObjectLiteral(props) ==
    [k \in {props[i][1] : i \in DOMAIN props} |->
        LET last == CHOOSE i \in DOMAIN props :
                        /\ props[i][1] = k
                        /\ \A j \in DOMAIN props : props[j][1] = k => j <= i
        IN  props[last][2]]

\* faulty variant: a constructor that renames a type whose name is already taken
NewObjectType_Unique(h, name, definition) ==
    LET taken == \E i \in DOMAIN h : h[i].name = name
        n == IF taken THEN name \o <<"2">> ELSE name
    IN  [heap |-> Append(h, [name |-> n, definition |-> definition]),
         ret  |-> Len(h) + 1]

\* new ObjectType(name, {definition}): allocates a descriptor, returns its identity
NewObjectType(h, name, definition) ==
    [heap |-> Append(h, [name |-> name, definition |-> definition]),
     ret  |-> Len(h) + 1]

(***************************************************************************)
(* Field keys and suffixes                                                 *)
(***************************************************************************)
K_node == <<"n","o","d","e">>

K_cursor == <<"c","u","r","s","o","r">>

K_pageInfo == <<"p","a","g","e","I","n","f","o">>

K_edges == <<"e","d","g","e","s">>

K_totalCount == <<"t","o","t","a","l","C","o","u","n","t">>

K_id == <<"i","d">>

K_hasNextPage == <<"h","a","s","N","e","x","t","P","a","g","e">>

K_hasPreviousPage == <<"h","a","s","P","r","e","v","i","o","u","s","P","a","g","e">>

K_startCursor == <<"s","t","a","r","t","C","u","r","s","o","r">>

K_endCursor == <<"e","n","d","C","u","r","s","o","r">>

S_Edge == <<"E","d","g","e">>

S_Connection == <<"C","o","n","n","e","c","t","i","o","n">>

(***************************************************************************)
(* PageInfo: the module-level ObjectType, the first object allocated       *)
(***************************************************************************)
PageInfo == 1

PageInfoName == <<"P","a","g","e","I","n","f","o">>

PageInfoType ==
    [name |-> PageInfoName,
     definition |-> ObjectLiteral(<<
         << K_hasNextPage, required_boolean >>,
         << K_hasPreviousPage, required_boolean >>,
         << K_startCursor, string >>,
         << K_endCursor, string >> >>)]

(***************************************************************************)
(* The generator                                                           *)
(***************************************************************************)
\* faulty variant: the self-relation test is left out, the prefix is always there
obtainName_AlwaysPrefix(h, suffix, options) ==
    h[options.base].name \o pluralize(h[options.target].name) \o suffix

\* faulty variant: base and target are compared by name, not by identity
obtainName_ByName(h, suffix, options) ==
    LET isSame == h[options.base].name = h[options.target].name
        prefix == IF isSame THEN <<>> ELSE h[options.base].name
    IN  prefix \o pluralize(h[options.target].name) \o suffix

\* faulty variant: the prefix is dropped for every pair
obtainName_NoPrefix(h, suffix, options) ==
    pluralize(h[options.target].name) \o suffix

obtainName(h, suffix, options) ==
    LET isSame == options.base = options.target
        prefix == IF isSame THEN <<>> ELSE h[options.base].name
        target == pluralize(h[options.target].name)
    IN  prefix \o target \o suffix

\* faulty variant: node is marked required
generateEdge_RequiredNode(h, options) ==
    NewObjectType(h, obtainName(h, S_Edge, options), ObjectLiteral(<<
        << K_node, attribute(options.target, FALSE, TRUE) >>,
        << K_cursor, required_string >> >>))

\* faulty variant: a target without a name is rejected, nothing is returned
generateEdge_RejectsEmptyName(h, options) ==
    IF h[options.target].name = <<>>
    THEN [heap |-> h, ret |-> 0]
    ELSE NewObjectType(h, obtainName(h, S_Edge, options), ObjectLiteral(<<
             << K_node, attribute(options.target, FALSE, FALSE) >>,
             << K_cursor, required_string >> >>))

generateEdge(h, options) ==
    LET name == obtainName(h, S_Edge, options)
    IN  NewObjectType(h, name, ObjectLiteral(<<
            << K_node, attribute(options.target, FALSE, FALSE) >>,
            << K_cursor, required_string >> >>))

\* faulty variant: the connection is also added to the target as a field
\* (ObjectType.addField on the caller's descriptor)
generateConnection_AddsField(h, edge, options) ==
    LET name == obtainName(h, S_Connection, options)
        plural == toLowerCase(pluralize(h[options.target].name))
        t == h[options.target]
        definition == ObjectLiteral(<<
            << K_pageInfo, attribute(PageInfo, FALSE, TRUE) >>,
            << K_edges, attribute(edge, TRUE, FALSE) >>,
            << K_totalCount, int >>,
            << plural, attribute(options.target, TRUE, FALSE) >> >>)
        added == [k \in DOMAIN t.definition \cup {plural} |->
                     IF k = plural THEN attribute(Len(h) + 1, FALSE, FALSE)
                     ELSE t.definition[k]]
        h2 == [h EXCEPT ![options.target] = [name |-> t.name, definition |-> added]]
    IN  NewObjectType(h2, name, definition)

\* faulty variant: every connection constructs a PageInfo of its own
generateConnection_OwnPageInfo(h, edge, options) ==
    LET name == obtainName(h, S_Connection, options)
        plural == toLowerCase(pluralize(h[options.target].name))
        own == NewObjectType(h, h[PageInfo].name, h[PageInfo].definition)
        c == NewObjectType(own.heap, name, ObjectLiteral(<<
                << K_pageInfo, attribute(own.ret, FALSE, TRUE) >>,
                << K_edges, attribute(edge, TRUE, FALSE) >>,
                << K_totalCount, int >>,
                << plural, attribute(options.target, TRUE, FALSE) >> >>))
    IN  c

\* faulty variant: the edges field is marked required as well as list
generateConnection_RequiredEdges(h, edge, options) ==
    LET name == obtainName(h, S_Connection, options)
        plural == toLowerCase(pluralize(h[options.target].name))
    IN  NewObjectType(h, name, ObjectLiteral(<<
            << K_pageInfo, attribute(PageInfo, FALSE, TRUE) >>,
            << K_edges, attribute(edge, TRUE, TRUE) >>,
            << K_totalCount, int >>,
            << plural, attribute(options.target, TRUE, FALSE) >> >>))

\* faulty variant: the plural field is named after the whole generated stem,
\* base prefix included
generateConnection_PluralFromStem(h, edge, options) ==
    LET name == obtainName(h, S_Connection, options)
        plural == toLowerCase(obtainName(h, <<>>, options))
    IN  NewObjectType(h, name, ObjectLiteral(<<
            << K_pageInfo, attribute(PageInfo, FALSE, TRUE) >>,
            << K_edges, attribute(edge, TRUE, FALSE) >>,
            << K_totalCount, int >>,
            << plural, attribute(options.target, TRUE, FALSE) >> >>))

generateConnection(h, edge, options) ==
    LET name == obtainName(h, S_Connection, options)
        plural == toLowerCase(pluralize(h[options.target].name))
    IN  NewObjectType(h, name, ObjectLiteral(<<
            << K_pageInfo, attribute(PageInfo, FALSE, TRUE) >>,
            << K_edges, attribute(edge, TRUE, FALSE) >>,
            << K_totalCount, int >>,
            << plural, attribute(options.target, TRUE, FALSE) >> >>))

generateConnectionAndEdge(h, options) ==
    LET e == generateEdge(h, options)
        c == generateConnection(e.heap, e.ret, options)
    IN  [heap |-> c.heap, edge |-> e.ret, connection |-> c.ret]

(***************************************************************************)
(* .github/workflows/node.yml: the workflow "AWS CDK CI" run on a pull     *)
(* request. A job's steps run in order, each only if the ones before it    *)
(* succeeded; a job with `needs` waits for the jobs it names and is        *)
(* skipped when one of them did not succeed.                               *)
(***************************************************************************)
Jobs == {"build", "verify"}

\* on.pull_request.branches
Branches == {"main", "develop"}

\* on.pull_request.paths, on a file given as directories, base name, extension
PathMatches(f) ==
    \/ f.ext = "ts"
    \/ (f.dir # <<>> /\ f.dir[1] = "src")
    \/ f = [dir |-> <<".github", "workflows">>, base |-> "cdk", ext |-> "yml"]
    \/ f.ext = "json"
    \/ f.ext = "yaml"

\* the steps of each job: name (or action used) and id
Steps ==
    [build |-> << [name |-> "actions/checkout@v2", id |-> ""],
                  [name |-> "actions/setup-node@v2.5.1", id |-> ""],
                  [name |-> "Configure pnpm", id |-> ""],
                  [name |-> "Install", id |-> ""],
                  [name |-> "Test", id |-> ""],
                  [name |-> "Build", id |-> ""] >>,
     verify |-> << [name |-> "actions/checkout@v2", id |-> ""],
                   [name |-> "actions/setup-node@v2.5.1", id |-> ""],
                   [name |-> "Configure pnpm", id |-> ""],
                   [name |-> "Setup CDK", id |-> ""],
                   [name |-> "Diagnose", id |-> ""],
                   [name |-> "Diff", id |-> "diff"],
                   [name |-> "Comment", id |-> ""] >>]

\* faulty variant: verify does not wait for build
Needs_Nothing == [build |-> {}, verify |-> {}]

\* jobs.<job>.needs
Needs == [build |-> {}, verify |-> {"build"}]

\* ${LOG//pattern/replacement}: every occurrence of the character replaced
RECURSIVE ReplaceAll(_, _, _)
ReplaceAll(w, ch, replacement) ==
    IF w = <<>> THEN <<>>
    ELSE (IF Head(w) = ch THEN replacement ELSE <<Head(w)>>)
         \o ReplaceAll(Tail(w), ch, replacement)

\* the three substitutions of the Diff step, in the script's order
EscapeLog(LOG) ==
    ReplaceAll(ReplaceAll(ReplaceAll(LOG, "%", <<"%", "2", "5">>),
                          "\n", <<"%", "0", "A">>),
               "\r", <<"%", "0", "D">>)

\* the value a ::set-output command stores: the runner turns %0D, %0A and
\* %25 back into the characters they stand for, in that order
RECURSIVE UnescapeOne(_, _, _)
UnescapeOne(w, token, ch) ==
    IF Len(w) < Len(token) THEN w
    ELSE IF SubSeq(w, 1, Len(token)) = token
         THEN <<ch>> \o UnescapeOne(SubSeq(w, Len(token) + 1, Len(w)), token, ch)
         ELSE <<Head(w)>> \o UnescapeOne(Tail(w), token, ch)

SetOutput(data) ==
    UnescapeOne(UnescapeOne(UnescapeOne(data, <<"%", "0", "D">>, "\r"),
                            <<"%", "0", "A">>, "\n"),
                <<"%", "2", "5">>, "%")

\* what `cdk diff --no-color 2>&1` may print
DiffLogs == { <<>>, <<"+">>, <<"%">>, <<"+", "\n", "-">>, <<"%", "0", "A", "\r">> }

\* ${{ steps.<id>.outputs.<name> }}: empty when the output is not set
StepOutput(id, name) ==
    IF id \in DOMAIN outputs /\ name \in DOMAIN outputs[id]
    THEN outputs[id][name] ELSE <<>>

\* the backquote character, which a string literal cannot hold
Backquote == "BACKQUOTE"

\* the body of the Comment step: the log between two code fences
CommentBody ==
    <<Backquote, Backquote, Backquote, "\n">> \o StepOutput("diff", "log")
        \o <<"\n", Backquote, Backquote, Backquote, "\n">>

\* the pull requests: base branch and a changed file
ChangedFiles ==
    { [dir |-> <<"lib">>, base |-> "app", ext |-> "ts"],
      [dir |-> <<"src">>, base |-> "handler", ext |-> "py"],
      [dir |-> <<".github", "workflows">>, base |-> "cdk", ext |-> "yml"],
      [dir |-> <<>>, base |-> "README", ext |-> "md"] }

PullRequests == [base : {"main", "develop", "feature"}, changed : ChangedFiles]

NoOutputs == [id \in {} |-> {}]

\* no workflow run exists
CIIdle ==
    /\ event = [base |-> "", changed |-> [dir |-> <<>>, base |-> "", ext |-> ""]]
    /\ jobs = [j \in Jobs |-> "none"]
    /\ step = [j \in Jobs |-> 0]
    /\ outputs = NoOutputs
    /\ comments = <<>>

\* the step job j is at
CurrentStep(j) == Steps[j][step[j]]

\* the job's status and position once its current step has succeeded
Advance(j) ==
    /\ jobs' = [jobs EXCEPT ![j] = IF step[j] = Len(Steps[j]) THEN "success" ELSE @]
    /\ step' = [step EXCEPT ![j] = IF step[j] = Len(Steps[j]) THEN @ ELSE @ + 1]

\* the pull_request event passes the branch and path filters: a run is
\* created with all its jobs queued
Trigger ==
    /\ \A j \in Jobs : jobs[j] = "none"
    /\ event.base \in Branches
    /\ PathMatches(event.changed)
    /\ jobs' = [j \in Jobs |-> "queued"]
    /\ UNCHANGED <<event, step, outputs, comments, heap, log, restVars>>

\* a runner picks up a queued job whose needs all succeeded
StartJob(j) ==
    /\ jobs[j] = "queued"
    /\ \A n \in Needs[j] : jobs[n] = "success"
    /\ jobs' = [jobs EXCEPT ![j] = "in_progress"]
    /\ step' = [step EXCEPT ![j] = 1]
    /\ UNCHANGED <<event, outputs, comments, heap, log, restVars>>

\* a queued job is skipped when a job it needs failed or was skipped
SkipJob(j) ==
    /\ jobs[j] = "queued"
    /\ \E n \in Needs[j] : jobs[n] \in {"failure", "skipped"}
    /\ jobs' = [jobs EXCEPT ![j] = "skipped"]
    /\ UNCHANGED <<event, step, outputs, comments, heap, log, restVars>>

\* a step without output or comment succeeds
RunStep(j) ==
    /\ jobs[j] = "in_progress"
    /\ CurrentStep(j).name \notin {"Diff", "Comment"}
    /\ Advance(j)
    /\ UNCHANGED <<event, outputs, comments, heap, log, restVars>>

\* the current step exits with an error (under bash -e, the first failing
\* command of a script): the steps after it do not run and the job fails
FailStep(j) ==
    /\ jobs[j] = "in_progress"
    /\ jobs' = [jobs EXCEPT ![j] = "failure"]
    /\ UNCHANGED <<event, step, outputs, comments, heap, log, restVars>>

\* the Diff step succeeds: cdk diff printed LOG and the script's last line
\* set the output `log` of step `diff`
RunDiff ==
    /\ jobs["verify"] = "in_progress"
    /\ CurrentStep("verify").name = "Diff"
    /\ \E LOG \in DiffLogs :
           outputs' = (CurrentStep("verify").id :>
                          [n \in {"log"} |-> SetOutput(EscapeLog(LOG))]) @@ outputs
    /\ Advance("verify")
    /\ UNCHANGED <<event, comments, heap, log, restVars>>

\* the Comment step succeeds: a comment with the body is created
RunComment ==
    /\ jobs["verify"] = "in_progress"
    /\ CurrentStep("verify").name = "Comment"
    /\ comments' = Append(comments, CommentBody)
    /\ Advance("verify")
    /\ UNCHANGED <<event, outputs, heap, log, restVars>>

(***************************************************************************)
(* lib/constructs/business/rest-api-service.ts                             *)
(*                                                                         *)
(* Each service's constructor is the list of its statements that create    *)
(* resources, register methods or assign resourceMapping (models, roles    *)
(* and integrations are arguments of these and leave no state behind).     *)
(* A Resource is its path, a Method its path and HTTP method.              *)
(***************************************************************************)
Services == {"Syllabus", "CourseReviews", "Career", "Timetable", "Graphql"}

\* const v = parent.addResource(part)
addResource(v, parent, part) ==
    [op |-> "addResource", var |-> v, on |-> parent, part |-> part]

\* const v = resource.addCorsPreflight({allowMethods})
addCorsPreflight(v, resource, allowMethods) ==
    [op |-> "addCorsPreflight", var |-> v, on |-> resource, allow |-> allowMethods]

\* const v = resource.addMethod(method, integration, options)
addMethod(v, resource, method) ==
    [op |-> "addMethod", var |-> v, on |-> resource, method |-> method]

\* this.resourceMapping = {path: {[method]: v, ...}, ...}
assignMapping(literal) == [op |-> "assignMapping", literal |-> literal]

SyllabusConstructor == <<
    addResource("root", "apiEndpoint.root", "syllabus"),
    addResource("syllabusSchools", "root", "{school}"),
    addResource("bookInfo", "root", "book-info"),
    addCorsPreflight("optionsSyllabusSchools", "syllabusSchools",
                     {"GET", "OPTIONS", "HEAD"}),
    addMethod("getSyllabusSchools", "syllabusSchools", "GET"),
    addMethod("headSyllabusSchools", "syllabusSchools", "HEAD"),
    addCorsPreflight("optionsSyllabusCourse", "root", {"GET", "OPTIONS"}),
    addMethod("getSyllabusCourse", "root", "GET"),
    addCorsPreflight("optionsBookInfo", "bookInfo", {"POST", "OPTIONS"}),
    addMethod("postBookInfo", "bookInfo", "POST"),
    assignMapping(<<
        << "/syllabus", << << "GET", "getSyllabusCourse" >>,
                           << "OPTIONS", "optionsSyllabusCourse" >> >> >>,
        << "/syllabus/{school}", << << "GET", "getSyllabusSchools" >>,
                                    << "OPTIONS", "optionsSyllabusSchools" >>,
                                    << "HEAD", "headSyllabusSchools" >> >> >>,
        << "/syllabus/book-info", << << "POST", "postBookInfo" >>,
                                     << "OPTIONS", "optionsBookInfo" >> >> >> >>) >>

CourseReviewsConstructor == <<
    addResource("course-reviews", "apiEndpoint.root", "course-reviews"),
    addResource("root", "course-reviews", "{key}"),
    addCorsPreflight("optionsCourseReviews", "root",
                     {"GET", "POST", "PATCH", "DELETE", "OPTIONS"}),
    addMethod("getCourseReviews", "root", "GET"),
    addMethod("postCourseReviews", "root", "POST"),
    addMethod("patchCourseReviews", "root", "PATCH"),
    addMethod("deleteCourseReviews", "root", "DELETE"),
    assignMapping(<<
        << "/course-reviews/{key}", << << "GET", "getCourseReviews" >>,
                                       << "OPTIONS", "optionsCourseReviews" >>,
                                       << "PATCH", "patchCourseReviews" >>,
                                       << "POST", "postCourseReviews" >>,
                                       << "DELETE", "deleteCourseReviews" >> >> >> >>) >>

\* the return values of addCorsPreflight and addMethod are dropped, and
\* resourceMapping is left as initialised
CareerConstructor == <<
    addResource("root", "apiEndpoint.root", "career"),
    addResource("intern", "root", "intern"),
    addResource("part", "root", "part-time"),
    addResource("seminar", "root", "seminar"),
    addCorsPreflight("", "intern", {"GET", "OPTIONS"}),
    addCorsPreflight("", "part", {"GET", "OPTIONS"}),
    addCorsPreflight("", "seminar", {"GET", "OPTIONS"}),
    addMethod("", "intern", "GET"),
    addMethod("", "part", "GET"),
    addMethod("", "seminar", "GET") >>

\* faulty variant: PATCH is left out of the preflight of /timetable
TimetableConstructor_PatchNotAllowed == <<
    addResource("root", "apiEndpoint.root", "timetable"),
    addResource("timetableImport", "root", "import"),
    addResource("timetableExport", "root", "export"),
    addCorsPreflight("optionsTimetable", "root", {"GET", "POST", "OPTIONS", "DELETE"}),
    addMethod("getTimetable", "root", "GET"),
    addMethod("postTimetable", "root", "POST"),
    addMethod("patchTimetable", "root", "PATCH"),
    assignMapping(<<
        << "/timetable", << << "OPTIONS", "optionsTimetable" >>,
                            << "GET", "getTimetable" >>,
                            << "PATCH", "patchTimetable" >>,
                            << "POST", "postTimetable" >> >> >> >>) >>

TimetableConstructor == <<
    addResource("root", "apiEndpoint.root", "timetable"),
    addResource("timetableImport", "root", "import"),
    addResource("timetableExport", "root", "export"),
    addCorsPreflight("optionsTimetable", "root",
                     {"GET", "POST", "PATCH", "OPTIONS", "DELETE"}),
    addMethod("getTimetable", "root", "GET"),
    addMethod("postTimetable", "root", "POST"),
    addMethod("patchTimetable", "root", "PATCH"),
    assignMapping(<<
        << "/timetable", << << "OPTIONS", "optionsTimetable" >>,
                            << "GET", "getTimetable" >>,
                            << "PATCH", "patchTimetable" >>,
                            << "POST", "postTimetable" >> >> >> >>) >>

GraphqlConstructor == <<
    addResource("root", "apiEndpoint.root", "graphql"),
    addCorsPreflight("optionsGql", "root", {"POST", "OPTIONS"}),
    addMethod("postGql", "root", "POST"),
    assignMapping(<<
        << "/graphql", << << "OPTIONS", "optionsGql" >>,
                          << "POST", "postGql" >> >> >> >>) >>

Constructor(s) ==
    CASE s = "Syllabus" -> SyllabusConstructor
      [] s = "CourseReviews" -> CourseReviewsConstructor
      [] s = "Career" -> CareerConstructor
      [] s = "Timetable" -> TimetableConstructor
      [] s = "Graphql" -> GraphqlConstructor

\* readonly resourceMapping = {}
EmptyMapping == [p \in {} |-> {}]

\* scope.apiEndpoint.root, the resource of the empty path
RootLocals == [v \in {"apiEndpoint.root"} |-> [path |-> ""]]

\* no service is under construction
RestIdle ==
    /\ constructing = "none"
    /\ pc = 0
    /\ locals = RootLocals
    /\ constructed = {}
    /\ registered = {}
    /\ preflights = EmptyMapping
    /\ resourceMapping = [s \in Services |-> EmptyMapping]

\* the statement the running constructor is at
Statement == Constructor(constructing)[pc]

AtStatement(op) ==
    /\ constructing # "none"
    /\ pc <= Len(Constructor(constructing))
    /\ Statement.op = op

\* a Method: what Resource.addMethod returns
MethodOn(resource, method) == [path |-> locals[resource].path, method |-> method]

\* the locals after `const v = value`; a value that is not bound is dropped
Bind(v, value) == IF v = "" THEN locals ELSE (v :> value) @@ locals

\* new XxxApiService(scope, id, props): the services are constructed one
\* after the other, in the order the endpoint chooses
Construct(s) ==
    /\ constructing = "none"
    /\ s \notin constructed
    /\ constructing' = s
    /\ pc' = 1
    /\ locals' = RootLocals
    /\ resourceMapping' = [resourceMapping EXCEPT ![s] = EmptyMapping]
    /\ UNCHANGED <<constructed, registered, preflights, heap, log, ciVars>>

AddResource ==
    /\ AtStatement("addResource")
    /\ locals' = Bind(Statement.var,
                      [path |-> locals[Statement.on].path \o "/" \o Statement.part])
    /\ pc' = pc + 1
    /\ UNCHANGED <<constructing, constructed, registered, preflights,
                   resourceMapping, heap, log, ciVars>>

\* Resource.addCorsPreflight registers the OPTIONS method of the resource
AddCorsPreflight ==
    /\ AtStatement("addCorsPreflight")
    /\ LET m == MethodOn(Statement.on, "OPTIONS")
       IN  /\ registered' = registered \cup
                  {[service |-> constructing, path |-> m.path, method |-> m.method]}
           /\ preflights' = (m.path :> Statement.allow) @@ preflights
           /\ locals' = Bind(Statement.var, m)
    /\ pc' = pc + 1
    /\ UNCHANGED <<constructing, constructed, resourceMapping, heap, log, ciVars>>

AddMethod ==
    /\ AtStatement("addMethod")
    /\ LET m == MethodOn(Statement.on, Statement.method)
       IN  /\ registered' = registered \cup
                  {[service |-> constructing, path |-> m.path, method |-> m.method]}
           /\ locals' = Bind(Statement.var, m)
    /\ pc' = pc + 1
    /\ UNCHANGED <<constructing, constructed, preflights, resourceMapping, heap, log, ciVars>>

\* the object literal assigned to this.resourceMapping
MappingLiteral(literal) ==
    ObjectLiteral([i \in DOMAIN literal |->
        << literal[i][1],
           ObjectLiteral([j \in DOMAIN literal[i][2] |->
               << literal[i][2][j][1], locals[literal[i][2][j][2]] >>]) >>])

AssignResourceMapping ==
    /\ AtStatement("assignMapping")
    /\ resourceMapping' =
           [resourceMapping EXCEPT ![constructing] = MappingLiteral(Statement.literal)]
    /\ pc' = pc + 1
    /\ UNCHANGED <<constructing, locals, constructed, registered, preflights,
                   heap, log, ciVars>>

\* the constructor returns
Return ==
    /\ constructing # "none"
    /\ pc > Len(Constructor(constructing))
    /\ constructed' = constructed \cup {constructing}
    /\ constructing' = "none"
    /\ pc' = 0
    /\ locals' = RootLocals
    /\ UNCHANGED <<registered, preflights, resourceMapping, heap, log, ciVars>>

InitRest ==
    /\ heap = <<PageInfoType>>
    /\ log = <<>>
    /\ RestIdle
    /\ CIIdle

NextRest ==
    \/ \E s \in Services : Construct(s)
    \/ AddResource
    \/ AddCorsPreflight
    \/ AddMethod
    \/ AssignResourceMapping
    \/ Return

SpecRest == InitRest /\ [][NextRest]_vars

(***************************************************************************)
(* The workflow run of one pull request                                    *)
(***************************************************************************)
InitCI ==
    /\ heap = <<PageInfoType>>
    /\ log = <<>>
    /\ RestIdle
    /\ event \in PullRequests
    /\ jobs = [j \in Jobs |-> "none"]
    /\ step = [j \in Jobs |-> 0]
    /\ outputs = NoOutputs
    /\ comments = <<>>

NextCI ==
    \/ Trigger
    \/ \E j \in Jobs : StartJob(j)
    \/ \E j \in Jobs : SkipJob(j)
    \/ \E j \in Jobs : RunStep(j)
    \/ \E j \in Jobs : FailStep(j)
    \/ RunDiff
    \/ RunComment

SpecCI == InitCI /\ [][NextCI]_vars

(***************************************************************************)
(* The callers' ObjectTypes                                                *)
(***************************************************************************)
Names == << <<>>,
            <<"C","o","u","r","s","e">>,
            <<"E","d","g","e">>,
            <<"P","e","r","s","o","n">>,
            <<"R","e","v","i","e","w">>,
            <<"S","t","u","d","e","n","t">> >>

InputType(name) ==
    [name |-> name, definition |-> ObjectLiteral(<< << K_id, required_id >> >>)]

\* identities of the caller's ObjectTypes: allocated right after PageInfo
Inputs == (PageInfo + 1)..(PageInfo + NumInputs)

\* identities of the descriptors generateEdge has returned so far
Edges == {log[i].edge : i \in DOMAIN log} \ {0}

\* identities of the descriptors generateConnection has returned so far
Connections == {log[i].connection : i \in DOMAIN log} \ {0}

Init ==
    /\ \E pick \in [1..NumInputs -> DOMAIN Names] :
          \* the order of construction of the caller's types is immaterial
          /\ \A i, j \in 1..NumInputs : i <= j => pick[i] <= pick[j]
          /\ heap = <<PageInfoType>> \o [i \in 1..NumInputs |-> InputType(Names[pick[i]])]
    /\ log = <<>>
    /\ RestIdle
    /\ CIIdle

GenerateEdge(b, t) ==
    /\ Len(heap) + 1 <= MaxHeap
    /\ LET r == generateEdge(heap, [base |-> b, target |-> t])
       IN  /\ heap' = r.heap
           /\ log' = Append(log, [op |-> "generateEdge", base |-> b, target |-> t,
                                  arg |-> 0, edge |-> r.ret, connection |-> 0])
    /\ UNCHANGED <<restVars, ciVars>>

GenerateConnection(e, b, t) ==
    /\ Len(heap) + 1 <= MaxHeap
    /\ LET r == generateConnection(heap, e, [base |-> b, target |-> t])
       IN  /\ heap' = r.heap
           /\ log' = Append(log, [op |-> "generateConnection", base |-> b, target |-> t,
                                  arg |-> e, edge |-> 0, connection |-> r.ret])
    /\ UNCHANGED <<restVars, ciVars>>

CallConnectionAndEdge(b, t) ==
    LET r == generateConnectionAndEdge(heap, [base |-> b, target |-> t])
    IN  /\ heap' = r.heap
        /\ log' = Append(log, [op |-> "generateConnectionAndEdge", base |-> b,
                               target |-> t, arg |-> 0, edge |-> r.edge,
                               connection |-> r.connection])
        /\ UNCHANGED <<restVars, ciVars>>

GenerateConnectionAndEdge(b, t) ==
    /\ Len(heap) + 2 <= MaxHeap
    /\ CallConnectionAndEdge(b, t)

\* the combined generator called again and again, by a caller that uses
\* nothing else
RepeatConnectionAndEdge(b, t) ==
    /\ Len(log) < MaxRepeat
    /\ CallConnectionAndEdge(b, t)

Next ==
    \/ \E b, t \in Inputs : GenerateEdge(b, t)
    \/ \E e \in Edges, b, t \in Inputs : GenerateConnection(e, b, t)
    \/ \E b, t \in Inputs : GenerateConnectionAndEdge(b, t)

Spec == Init /\ [][Next]_vars

NextCombined == \E b, t \in Inputs : RepeatConnectionAndEdge(b, t)

SpecCombined == Init /\ [][NextCombined]_vars

(***************************************************************************)
(* Properties                                                              *)
(***************************************************************************)
N_Review == <<"R","e","v","i","e","w">>

N_Course == <<"C","o","u","r","s","e">>

N_Student == <<"S","t","u","d","e","n","t">>

N_Edge == <<"E","d","g","e">>

\* the names of the descriptors a logged call was given and has returned
BaseName(i) == heap[log[i].base].name

TargetName(i) == heap[log[i].target].name

EdgeName(i) == heap[log[i].edge].name

ConnectionName(i) == heap[log[i].connection].name

\* the edge a logged connection is paired with: the one it was given, or the
\* one the combined generator made for it
PairedEdge(i) == IF log[i].op = "generateConnection" THEN log[i].arg ELSE log[i].edge

\* C1: when base and target are the same descriptor T, the generated Edge is
\* named pluralize(T.name) + "Edge" and the generated Connection
\* pluralize(T.name) + "Connection", without prefix; Review gives ReviewsEdge
\* and ReviewsConnection.
SelfRelationNaming ==
    \A i \in DOMAIN log :
        log[i].base = log[i].target =>
            /\ log[i].edge # 0 =>
                 /\ EdgeName(i) = pluralize(TargetName(i)) \o S_Edge
                 /\ TargetName(i) = N_Review =>
                        EdgeName(i) = <<"R","e","v","i","e","w","s","E","d","g","e">>
            /\ log[i].connection # 0 =>
                 /\ ConnectionName(i) = pluralize(TargetName(i)) \o S_Connection
                 /\ TargetName(i) = N_Review =>
                        ConnectionName(i) = <<"R","e","v","i","e","w","s">> \o S_Connection

SelfRelationGenerated ==
    \E i \in DOMAIN log :
        /\ log[i].op = "generateConnectionAndEdge"
        /\ log[i].base = log[i].target
        /\ TargetName(i) = N_Review
        /\ EdgeName(i) = <<"R","e","v","i","e","w","s","E","d","g","e">>

\* C2: when base B and target T are distinct descriptors, the generated Edge
\* is named B.name + pluralize(T.name) + "Edge" and the generated Connection
\* B.name + pluralize(T.name) + "Connection"; Student/Course gives
\* StudentCoursesEdge and StudentCoursesConnection.
CrossRelationNaming ==
    \A i \in DOMAIN log :
        log[i].base # log[i].target =>
            /\ log[i].edge # 0 =>
                 /\ EdgeName(i) = BaseName(i) \o pluralize(TargetName(i)) \o S_Edge
                 /\ (BaseName(i) = N_Student /\ TargetName(i) = N_Course) =>
                        EdgeName(i) = N_Student \o <<"C","o","u","r","s","e","s">> \o S_Edge
            /\ log[i].connection # 0 =>
                 /\ ConnectionName(i) =
                        BaseName(i) \o pluralize(TargetName(i)) \o S_Connection
                 /\ (BaseName(i) = N_Student /\ TargetName(i) = N_Course) =>
                        ConnectionName(i) =
                            N_Student \o <<"C","o","u","r","s","e","s">> \o S_Connection

CrossRelationGenerated ==
    \E i \in DOMAIN log :
        /\ log[i].op = "generateConnectionAndEdge"
        /\ log[i].base # log[i].target
        /\ BaseName(i) = N_Student
        /\ TargetName(i) = N_Course
        /\ Len(EdgeName(i)) = Len(N_Student) + Len(N_Course) + 1 + Len(S_Edge)

\* C3: every Edge generateEdge returns has exactly the two fields node and
\* cursor: node refers to the target and is neither required nor a list,
\* cursor is a required string that is no list.
EdgeHasNodeAndCursor ==
    \A i \in DOMAIN log :
        log[i].edge # 0 =>
            LET d == heap[log[i].edge].definition
            IN  /\ DOMAIN d = {K_node, K_cursor}
                /\ Cardinality(DOMAIN d) = 2
                /\ d[K_node].kind = "INTERMEDIATE"
                /\ d[K_node].ref = log[i].target
                /\ ~d[K_node].isRequired
                /\ ~d[K_node].isList
                /\ d[K_cursor].kind = "String"
                /\ d[K_cursor].ref = 0
                /\ d[K_cursor].isRequired
                /\ ~d[K_cursor].isList

EdgeGenerated ==
    \E i, j \in DOMAIN log :
        /\ log[i].op = "generateEdge"
        /\ log[j].op = "generateConnectionAndEdge"
        /\ heap[log[i].edge].definition[K_node].ref = log[i].target
        /\ log[i].base # log[i].target

\* C4: every Connection generateConnection returns has exactly four fields:
\* pageInfo (a required reference to PageInfo), edges (a list of the paired
\* Edge), totalCount (an int) and one field named
\* lowercase(pluralize(T.name)) that is a list of references to T.
ConnectionHasFourFields ==
    \A i \in DOMAIN log :
        log[i].connection # 0 =>
            LET d == heap[log[i].connection].definition
                plural == toLowerCase(pluralize(TargetName(i)))
            IN  /\ Cardinality(DOMAIN d) = 4
                /\ DOMAIN d = {K_pageInfo, K_edges, K_totalCount, plural}
                /\ d[K_pageInfo] = attribute(PageInfo, FALSE, TRUE)
                /\ d[K_edges] = attribute(PairedEdge(i), TRUE, FALSE)
                /\ d[K_totalCount] = Scalar("Int", FALSE, FALSE)
                /\ d[plural] = attribute(log[i].target, TRUE, FALSE)

\* C5: generateConnectionAndEdge returns what generateEdge and then
\* generateConnection on that edge return: the edge has generateEdge's name
\* and fields, the connection generateConnection's, and the connection's
\* edges field is a list of the very Edge returned with it.
CombinedIsEdgeThenConnection ==
    \A i \in DOMAIN log :
        log[i].op = "generateConnectionAndEdge" =>
            LET o == [base |-> log[i].base, target |-> log[i].target]
                before == SubSeq(heap, 1, log[i].edge - 1)
                e == generateEdge(before, o)
                c == generateConnection(e.heap, e.ret, o)
                d == heap[log[i].connection].definition
            IN  /\ log[i].edge = e.ret
                /\ heap[log[i].edge] = e.heap[e.ret]
                /\ log[i].connection = c.ret
                /\ heap[log[i].connection] = c.heap[c.ret]
                /\ K_edges \in DOMAIN d
                /\ d[K_edges] = attribute(log[i].edge, TRUE, FALSE)
                /\ heap[log[i].edge].definition[K_node].ref = log[i].target
                /\ K_node \in DOMAIN heap[d[K_edges].ref].definition

\* the name and field shapes of a descriptor: a reference is seen as the
\* name of the type it refers to
FieldShape(f) ==
    [kind |-> f.kind, isList |-> f.isList, isRequired |-> f.isRequired,
     type |-> IF f.ref = 0 THEN <<>> ELSE heap[f.ref].name]

Shape(d) ==
    [name |-> heap[d].name,
     definition |-> [k \in DOMAIN heap[d].definition |->
                        FieldShape(heap[d].definition[k])]]

\* two logged calls of the combined generator whose (base, target) pairs are
\* equal by value
EqualByValue(i, j) ==
    /\ log[i].op = "generateConnectionAndEdge"
    /\ log[j].op = "generateConnectionAndEdge"
    /\ heap[log[i].base] = heap[log[j].base]
    /\ heap[log[i].target] = heap[log[j].target]

\* both calls were given a self-relation, or neither was
SameAliasing(i, j) ==
    (log[i].base = log[i].target) <=> (log[j].base = log[j].target)

\* C6 as stated: two calls of generateConnectionAndEdge with (base, target)
\* pairs that are equal by value return edges of identical name and field
\* shapes and connections of identical name and field shapes.
IdempotentByValue ==
    \A i, j \in DOMAIN log :
        EqualByValue(i, j) =>
            /\ Shape(log[i].edge) = Shape(log[j].edge)
            /\ Shape(log[i].connection) = Shape(log[j].connection)

\* C6 amended: two calls of generateConnectionAndEdge with (base, target)
\* pairs that are equal by value, and in which base and target are the same
\* descriptor in both or in neither, return edges of identical name and
\* field shapes and connections of identical name and field shapes.
IdempotentByValueAndAliasing ==
    \A i, j \in DOMAIN log :
        (EqualByValue(i, j) /\ SameAliasing(i, j)) =>
            /\ Shape(log[i].edge) = Shape(log[j].edge)
            /\ Shape(log[i].connection) = Shape(log[j].connection)

CalledTwiceWithEqualPairs ==
    \E i, j \in DOMAIN log :
        /\ i < j
        /\ EqualByValue(i, j)
        /\ SameAliasing(i, j)
        /\ log[i].edge # log[j].edge
        /\ log[i].base # log[j].base
        /\ heap[log[i].edge].name = heap[log[j].edge].name

\* the part of a generated name that precedes the suffix
Stem(i) ==
    (IF log[i].base = log[i].target THEN <<>> ELSE BaseName(i))
        \o pluralize(TargetName(i))

DistinctPairs(i, j) ==
    log[i].base # log[j].base \/ log[i].target # log[j].target

\* C7 as stated: two distinct (base, target) pairs never produce the same
\* generated Edge name or the same generated Connection name.
NamesNeverCollide ==
    \A i, j \in DOMAIN log :
        DistinctPairs(i, j) =>
            /\ (log[i].edge # 0 /\ log[j].edge # 0) => EdgeName(i) # EdgeName(j)
            /\ (log[i].connection # 0 /\ log[j].connection # 0) =>
                   ConnectionName(i) # ConnectionName(j)

\* C7 amended: two distinct (base, target) pairs produce the same generated
\* Edge name, and the same generated Connection name, exactly when their
\* stems are the same string, the stem being pluralize(target.name) preceded
\* by base.name unless base and target are the same descriptor; pairs with
\* different stems never collide.
NamesCollideOnlyOnEqualStems ==
    \A i, j \in DOMAIN log :
        DistinctPairs(i, j) =>
            /\ (log[i].edge # 0 /\ log[j].edge # 0) =>
                   (EdgeName(i) = EdgeName(j) <=> Stem(i) = Stem(j))
            /\ (log[i].connection # 0 /\ log[j].connection # 0) =>
                   (ConnectionName(i) = ConnectionName(j) <=> Stem(i) = Stem(j))

DistinctPairsGenerated ==
    \E i, j, k \in DOMAIN log :
        /\ DistinctPairs(i, j)
        /\ DistinctPairs(i, k)
        /\ log[i].edge # 0 /\ log[j].edge # 0 /\ log[k].edge # 0
        /\ EdgeName(i) = EdgeName(j)
        /\ EdgeName(i) # EdgeName(k)

\* C8: no call changes the name or the fields of a descriptor that exists
\* when it is made (base, target, the edge given to generateConnection, every
\* descriptor returned earlier); a call only adds descriptors.
NoMutation ==
    [][ /\ Len(heap') > Len(heap)
        /\ \A d \in DOMAIN heap : heap'[d] = heap[d] ]_vars

DescriptorsReused ==
    \E i, j, k \in DOMAIN log :
        /\ i < j /\ j < k
        /\ log[i].op = "generateEdge"
        /\ log[j].op = "generateConnection"
        /\ log[j].arg = log[i].edge
        /\ log[k].target = log[i].target
        /\ DOMAIN heap[log[i].target].definition = {K_id}
        /\ DOMAIN heap[log[i].edge].definition = {K_node, K_cursor}

\* C9: there is exactly one PageInfo descriptor, its fields stay
\* hasNextPage and hasPreviousPage (required booleans), startCursor and
\* endCursor (optional strings), and the pageInfo field of every generated
\* Connection is a required reference to that descriptor.
PageInfoIsShared ==
    /\ {d \in DOMAIN heap : heap[d].name = PageInfoName} = {PageInfo}
    /\ LET d == heap[PageInfo].definition
       IN  /\ DOMAIN d = {K_hasNextPage, K_hasPreviousPage, K_startCursor, K_endCursor}
           /\ \A k \in {K_hasNextPage, K_hasPreviousPage} :
                 d[k].kind = "Boolean" /\ d[k].isRequired /\ ~d[k].isList
           /\ \A k \in {K_startCursor, K_endCursor} :
                 d[k].kind = "String" /\ ~d[k].isRequired /\ ~d[k].isList
    /\ \A c \in Connections :
          /\ K_pageInfo \in DOMAIN heap[c].definition
          /\ heap[c].definition[K_pageInfo].kind = "INTERMEDIATE"
          /\ heap[c].definition[K_pageInfo].ref = PageInfo
          /\ heap[c].definition[K_pageInfo].isRequired
          /\ ~heap[c].definition[K_pageInfo].isList

SeveralConnectionsGenerated ==
    \E c1, c2 \in Connections :
        /\ c1 # c2
        /\ heap[c1].definition[K_pageInfo].ref = heap[c2].definition[K_pageInfo].ref
        /\ heap[c1].name # heap[c2].name

\* a descriptor: a name that is a string, and fields
IsDescriptor(d) ==
    /\ d \in DOMAIN heap
    /\ DOMAIN heap[d] = {"name", "definition"}
    /\ DOMAIN heap[d].name = 1..Len(heap[d].name)

\* some earlier call has generated the name of descriptor d
NameGeneratedEarlier(d) ==
    \E e \in (Edges \cup Connections) : e < d /\ heap[e].name = heap[d].name

\* C10: the generators have no error outcome: every call has returned the
\* descriptors it is to return, new ones, also for a base or target with the
\* empty name and for a name that was generated before; and whatever pair of
\* the caller's descriptors comes next while the heap has room, each
\* generator returns a new descriptor for it.
GeneratorsAreTotal ==
    /\ \A i \in DOMAIN log :
          /\ log[i].op \in {"generateEdge", "generateConnectionAndEdge"} =>
                 /\ IsDescriptor(log[i].edge)
                 /\ log[i].edge \notin Inputs \cup {PageInfo}
          /\ log[i].op \in {"generateConnection", "generateConnectionAndEdge"} =>
                 /\ IsDescriptor(log[i].connection)
                 /\ log[i].connection \notin Inputs \cup {PageInfo}
          /\ \A j \in DOMAIN log :
                 i < j => /\ log[i].edge = 0 \/ log[i].edge # log[j].edge
                          /\ log[i].connection = 0 \/ log[i].connection # log[j].connection
    /\ Len(heap) < MaxHeap =>
          \A b, t \in Inputs :
              LET o == [base |-> b, target |-> t]
              IN  /\ generateEdge(heap, o).ret = Len(heap) + 1
                  /\ generateConnectionAndEdge(heap, o).connection = Len(heap) + 2
                  /\ \A e \in Edges :
                        generateConnection(heap, e, o).ret = Len(heap) + 1

EmptyAndCollidingNamesGenerated ==
    /\ \E i \in DOMAIN log : log[i].edge # 0 /\ TargetName(i) = <<>>
    /\ \E i \in DOMAIN log : log[i].connection # 0 /\ BaseName(i) = <<>>
    /\ \E d \in Edges \cup Connections : NameGeneratedEarlier(d)

\* C11: generateConnection takes the edge it is given on trust: whatever Edge
\* E it is given, also one generated for another (base, target) pair, the
\* Connection's name and plural field come from (B, T) alone and its edges
\* field is a list of exactly E.
ConnectionTrustsEdge ==
    \A i \in DOMAIN log :
        log[i].op = "generateConnection" =>
            LET d == heap[log[i].connection].definition
                plural == toLowerCase(pluralize(TargetName(i)))
            IN  /\ ConnectionName(i) = Stem(i) \o S_Connection
                /\ plural \in DOMAIN d
                /\ d[plural] = attribute(log[i].target, TRUE, FALSE)
                /\ d[K_edges] = attribute(log[i].arg, TRUE, FALSE)

N_CourseCourses == N_Course \o <<"C","o","u","r","s","e","s">>

\* C12: the self-relation test is by identity: two distinct descriptors that
\* carry the same name N give N + pluralize(N) + suffix, and the name is the
\* bare pluralize(T.name) + suffix of a self-relation only when base and
\* target are the same descriptor or the base's name is empty.
SelfRelationIsByIdentity ==
    \A i \in DOMAIN log :
        /\ (log[i].base # log[i].target /\ BaseName(i) = TargetName(i)) =>
              /\ log[i].edge # 0 =>
                    /\ EdgeName(i) = TargetName(i) \o pluralize(TargetName(i)) \o S_Edge
                    /\ TargetName(i) = N_Course => EdgeName(i) = N_CourseCourses \o S_Edge
              /\ log[i].connection # 0 =>
                    /\ ConnectionName(i) =
                           TargetName(i) \o pluralize(TargetName(i)) \o S_Connection
                    /\ TargetName(i) = N_Course =>
                           ConnectionName(i) = N_CourseCourses \o S_Connection
        /\ (log[i].edge # 0 /\ EdgeName(i) = pluralize(TargetName(i)) \o S_Edge) =>
              (log[i].base = log[i].target \/ BaseName(i) = <<>>)
        /\ (log[i].connection # 0
              /\ ConnectionName(i) = pluralize(TargetName(i)) \o S_Connection) =>
              (log[i].base = log[i].target \/ BaseName(i) = <<>>)

SameNameDistinctDescriptors ==
    \E i, j \in DOMAIN log :
        /\ log[i].base # log[i].target
        /\ BaseName(i) = N_Course
        /\ TargetName(i) = N_Course
        /\ log[i].edge # 0
        /\ EdgeName(i) = N_CourseCourses \o S_Edge
        /\ log[j].base = log[j].target
        /\ log[j].target = log[i].target
        /\ log[j].connection # 0

\* C13: list and required are separate modifiers: list_of(X) is a list that
\* is not required, required(X) is required and no list, and in every
\* generated Connection pageInfo is required and no list, edges and the
\* plural target field are lists and not required, totalCount is neither.
ListAndRequiredAreOrthogonal ==
    /\ \A d \in DOMAIN heap :
          /\ list_of(d).isList /\ ~list_of(d).isRequired /\ list_of(d).ref = d
          /\ required(d).isRequired /\ ~required(d).isList /\ required(d).ref = d
    /\ \A i \in DOMAIN log :
          log[i].connection # 0 =>
              LET d == heap[log[i].connection].definition
                  plural == toLowerCase(pluralize(TargetName(i)))
              IN  /\ d[K_pageInfo].isRequired /\ ~d[K_pageInfo].isList
                  /\ d[K_edges].isList /\ ~d[K_edges].isRequired
                  /\ d[plural].isList /\ ~d[plural].isRequired
                  /\ ~d[K_totalCount].isList /\ ~d[K_totalCount].isRequired

ConnectionFieldsGenerated ==
    \E i, j \in DOMAIN log :
        /\ log[i].op = "generateConnection"
        /\ log[j].op = "generateConnectionAndEdge"
        /\ TargetName(i) = N_Edge
        /\ Cardinality(DOMAIN heap[log[j].connection].definition) = 4

\* C14: the Edge and the Connection that generateConnectionAndEdge returns
\* have the same stem: the edge's name without "Edge" is the connection's
\* name without "Connection"; and the connection's plural field is named
\* lowercase(pluralize(target.name)) whatever the base is.
EdgeAndConnectionShareStem ==
    \A i \in DOMAIN log :
        log[i].op = "generateConnectionAndEdge" =>
            LET e == EdgeName(i)
                c == ConnectionName(i)
                d == heap[log[i].connection].definition
            IN  /\ Len(e) >= Len(S_Edge) /\ TakeLast(e, Len(S_Edge)) = S_Edge
                /\ Len(c) >= Len(S_Connection)
                /\ TakeLast(c, Len(S_Connection)) = S_Connection
                /\ DropLast(e, Len(S_Edge)) = DropLast(c, Len(S_Connection))
                /\ toLowerCase(pluralize(TargetName(i))) \in DOMAIN d
                /\ DOMAIN d \ {K_pageInfo, K_edges, K_totalCount}
                      \subseteq {toLowerCase(pluralize(TargetName(i)))}

StemSharedAcrossBases ==
    \E i \in DOMAIN log :
        /\ log[i].op = "generateConnectionAndEdge"
        /\ log[i].base # log[i].target
        /\ BaseName(i) = N_Student
        /\ TargetName(i) = N_Course
        /\ <<"c","o","u","r","s","e","s">> \in DOMAIN heap[log[i].connection].definition
        /\ DropLast(EdgeName(i), Len(S_Edge)) = N_Student \o <<"C","o","u","r","s","e","s">>

\* C15: once a REST service is constructed, its resourceMapping holds, under
\* the method's path and HTTP method, every method the service registered on
\* the API with addMethod or addCorsPreflight.
MappingCoversRegistered ==
    \A r \in registered :
        r.service \in constructed =>
            /\ r.path \in DOMAIN resourceMapping[r.service]
            /\ r.method \in DOMAIN resourceMapping[r.service][r.path]
            /\ resourceMapping[r.service][r.path][r.method] =
                   [path |-> r.path, method |-> r.method]

\* C16: for every path of every service's resourceMapping, OPTIONS is mapped
\* and every mapped method is among the allowMethods of the CORS preflight
\* registered on that path.
MappedMethodsAreAllowed ==
    \A s \in Services :
        \A p \in DOMAIN resourceMapping[s] :
            /\ "OPTIONS" \in DOMAIN resourceMapping[s][p]
            /\ p \in DOMAIN preflights
            /\ DOMAIN resourceMapping[s][p] \subseteq preflights[p]

\* Syllabus and Timetable are constructed: HEAD is mapped next to GET and
\* OPTIONS, and /timetable maps PATCH
MappingsAssigned ==
    /\ {"Syllabus", "Timetable"} \subseteq constructed
    /\ "HEAD" \in DOMAIN resourceMapping["Syllabus"]["/syllabus/{school}"]
    /\ "PATCH" \in DOMAIN resourceMapping["Timetable"]["/timetable"]

\* the position of the named step among the steps of verify
StepIndex(name) == CHOOSE i \in DOMAIN Steps["verify"] : Steps["verify"][i].name = name

\* verify has been picked up by a runner
VerifyStarted == jobs["verify"] \in {"in_progress", "success", "failure"}

\* C17: in the pull-request workflow, verify starts only after build has
\* finished successfully and never runs when build failed; within verify,
\* the Comment step runs only after the Diff step has set its output `log`,
\* and the comment posted carries that log.
VerifyNeedsBuildAndCommentNeedsDiff ==
    /\ VerifyStarted => jobs["build"] = "success"
    /\ jobs["build"] = "failure" => jobs["verify"] \in {"queued", "skipped"}
    /\ (VerifyStarted /\ step["verify"] >= StepIndex("Comment")) =>
           ("diff" \in DOMAIN outputs /\ "log" \in DOMAIN outputs["diff"])
    /\ \A i \in DOMAIN comments :
           /\ "diff" \in DOMAIN outputs /\ "log" \in DOMAIN outputs["diff"]
           /\ comments[i] = <<Backquote, Backquote, Backquote, "\n">>
                                \o outputs["diff"]["log"]
                                \o <<"\n", Backquote, Backquote, Backquote, "\n">>

\* build succeeded, then verify ran to its end and posted the diff
VerifyCommentedAfterBuild ==
    /\ jobs["build"] = "success"
    /\ jobs["verify"] = "success"
    /\ Len(comments) = 1
    /\ outputs["diff"]["log"] = <<"+", "\n", "-">>

====
